---- MODULE Spec2Model ----
(***************************************************************************)
(* Build orchestration of pgo: Service.Build, its delegation path          *)
(* (delegateBuildOrFail, ensureDocker), the toolchain cache (ensureGo),    *)
(* the unpack callback (processSource) and the top-level pgo.Build.        *)
(*                                                                         *)
(* A Build call is a record of the sequence calls; it advances one         *)
(* external interaction at a time (pc), so that calls sharing a toolchain  *)
(* cache interleave as separate processes do.  A forwarded build is a new  *)
(* call on the builder the matched delegation points at.                   *)
(***************************************************************************)
EXTENDS Integers, Sequences, FiniteSets, TLC

\* Longest chain of forwards that is followed.
MaxDepth == 2
\* Largest number of files in a source bundle.
MaxFiles == 2
\* Largest number of builds that share one toolchain cache concurrently.
MaxBuilds == 2
\* Largest number of entries of the snapshot's environment.
MaxEnv == 2

VARIABLES
    deleg,      \* deleg[b][rt]: builder behind the delegation b's registry matches for rt
    goDir,      \* goDir[b]: state of <GoDir>/go<version> on builder b's host
    calls,      \* the Build calls of the current logical build(s)
    top         \* the top-level pgo.Build: [pc, err, stored]

vars == <<deleg, goDir, calls, top>>

---------------------------------------------------------------------------
\* Builders, runtimes and the spec

Builders == {"A", "B"}
NoBuilder == "none"
Runtimes == {"darwin/amd64", "linux/amd64"}
BadRuntime == "plan9"

\* s.cfg.Runtime after cfg.Runtime.Init(): the host's OS and architecture.
HostRuntime(b) == IF b = "A" THEN "darwin/amd64" ELSE "linux/amd64"

NoErr == ""
Nil == [nil |-> TRUE]

Specs ==
    [name : {"", "p"}, runtime : Runtimes \cup {BadRuntime},
     EnsureTheSameOs : BOOLEAN, hasData : BOOLEAN, mode : {"plugin", ""}]

\* buildSpec.Validate(): the name is set and the runtime is well formed.
Validate(sp) ==
    IF sp.name = "" \/ sp.runtime \notin Runtimes THEN "validation" ELSE NoErr

\* Lines 30-33: a validation error ends the call.
validateFailedNever(err) == FALSE
validateFailed(err) == err # NoErr

\* s.cfg.Runtime.ValidateOsAndArch(&buildSpec.Go.Runtime)
ValidateOsAndArch(host, rt) == IF host = rt THEN NoErr ELSE "mismatch"

\* The condition of line 34: a runtime mismatch or the forced-delegation flag.
ShouldDelegateFlagInverted(rtErr, sp) == rtErr # NoErr \/ ~sp.EnsureTheSameOs
ShouldDelegate(rtErr, sp) == rtErr # NoErr \/ sp.EnsureTheSameOs

\* s.cfg.delegations.Match(&spec.Go.Runtime)
Match(b, rt) == IF rt \in DOMAIN deleg[b] THEN deleg[b][rt] ELSE NoBuilder

\* spec.Go.EnsureTheSameOs = false
ClearFlagNot(sp) == sp
ClearFlag(sp) == [sp EXCEPT !.EnsureTheSameOs = FALSE]

\* buildSpec.GetModeWithSpec(): the build mode hint of the spec.
GetModeWithSpec(sp) == sp.mode

---------------------------------------------------------------------------
\* Source files and the unpack callback

mainFragment == <<"package ", "main">>

Contains(s, frag) ==
    \E i \in 1..(Len(s) - Len(frag) + 1) : SubSeq(s, i, i + Len(frag) - 1) = frag

\* path.Ext(info.Name())
Ext(name) ==
    CASE name \in {"main.go", "lib.go", "frame.go", "doc.go"} -> ".go"
      [] name = "go.mod" -> ".mod"
      [] name = "go.sum" -> ".sum"
      [] OTHER -> ".txt"

Files ==
    { [parent |-> "cmd", name |-> "main.go",
       content |-> <<"package ", "main", "import ", "dep/v1">>],
      [parent |-> "pkg", name |-> "lib.go",
       content |-> <<"package ", "lib", "import ", "dep/v1">>],
      [parent |-> "pkg", name |-> "frame.go",
       content |-> <<"package ", "main", "frame">>],
      [parent |-> "pkg", name |-> "doc.go",
       content |-> <<"// ", "package ", "main">>],
      [parent |-> "", name |-> "go.mod",
       content |-> <<"require ", "dep/v1">>],
      [parent |-> "", name |-> "go.sum",
       content |-> <<"dep/v1", "package ", "main">>],
      [parent |-> "", name |-> "notes.txt",
       content |-> <<"package ", "main">>] }

Bundles == { b \in SUBSET Files : Cardinality(b) <= MaxFiles }

\* path.Join(parent, info.Name())
Join(parent, name) == <<parent, name>>

\* snapshot.replaceDependencies(source): a reference to a dependency the
\* snapshot pins elsewhere is replaced by the pinned location.
replaceDependencies(source) ==
    [i \in 1..Len(source) |-> IF source[i] = "dep/v1" THEN "dep/v2" ELSE source[i]]

\* Service.processSource: the rewritten content and whether AppendMain is called.
processSourceNoScanOnReplace(f, replace) ==
    LET source == IF replace THEN replaceDependencies(f.content) ELSE f.content
    IN  [path |-> Join(f.parent, f.name), name |-> f.name, content |-> source,
         main |-> ~replace /\ Contains(source, mainFragment)]
processSource(f, replace) ==
    LET source == IF replace THEN replaceDependencies(f.content) ELSE f.content
    IN  [path |-> Join(f.parent, f.name), name |-> f.name, content |-> source,
         main |-> Contains(source, mainFragment)]

\* The file callback handed to Source.Unpack (lines 52-60).
onFileAnyExt(f, buildMode) == processSource(f, buildMode = "plugin")
onFile(f, buildMode) ==
    IF Ext(f.name) \in {".go", ".mod", ".sum"}
    THEN processSource(f, buildMode = "plugin")
    ELSE [path |-> Join(f.parent, f.name), name |-> f.name, content |-> f.content,
          main |-> FALSE]

\* The snapshot's build mode once the entry points are known: a workspace with
\* an entry point builds as a program unless plugin mode was requested.
ResolveMode(hint, mains) ==
    IF hint = "plugin" THEN "plugin"
    ELSE IF mains # {} THEN "program" ELSE "plugin"

---------------------------------------------------------------------------
\* Build calls

Clock == {1, 2}

\* Whether a call on builder b has not returned yet.
Busy(b) == \E d \in DOMAIN calls : calls[d].builder = b /\ calls[d].pc # "done"

At(c, pc) == c \in DOMAIN calls /\ calls[c].pc = pc

NewCall(b, sp, parent) ==
    [builder |-> b, parent |-> parent, arg |-> sp, spec |-> sp, pc |-> "enter",
     concurrent |-> Busy(b), trace |-> <<>>, target |-> NoBuilder, module |-> Nil, err |-> NoErr,
     buildMode |-> "", created |-> 0, goSeen |-> "", mains |-> {}, staged |-> {},
     goEnv |-> <<>>, snapEnv |-> <<>>, env |-> <<>>, data |-> ""]

\* return res, err
Return(cl, events, module, err) ==
    [cl EXCEPT !.pc = "done", !.trace = cl.trace \o events,
               !.module = module, !.err = err]

Goto(cl, events, pc) == [cl EXCEPT !.pc = pc, !.trace = cl.trace \o events]

Set(c, cl) == calls' = [calls EXCEPT ![c] = cl]

\* delegateBuildOrFail up to the registry lookup (lines 151-156).
delegateBuildOrFail(cl, err) ==
    LET sp == ClearFlag(cl.spec)
        delegation == Match(cl.builder, sp.runtime)
        cl2 == [cl EXCEPT !.spec = sp, !.target = delegation]
    IN  IF delegation = NoBuilder
        THEN Return(cl2, <<"clearFlag", "match">>, Nil, err)
        ELSE Goto(cl2, <<"clearFlag", "match">>, "probe")

\* Lines 37-43 up to the pack: the snapshot is built once the source is packed.
NewSnapshotThenUnpack(cl, events, now) ==
    [Goto(cl, events, "unpack") EXCEPT !.buildMode = GetModeWithSpec(cl.spec),
                                       !.created = now]
NewSnapshot(cl, events, now) ==
    [Goto(cl, events, "ensureGo") EXCEPT !.buildMode = GetModeWithSpec(cl.spec),
                                         !.created = now]

\* Service.Build, lines 25-43, up to its first external call.
BuildEnterAt(c, clock) ==
    /\ At(c, "enter")
    /\ \E now \in clock :
        LET cl == calls[c]
            err == Validate(cl.spec)
            rtErr == ValidateOsAndArch(HostRuntime(cl.builder), cl.spec.runtime)
        IN  Set(c, IF validateFailed(err)
                   THEN Return(cl, <<"validate">>, Nil, err)
                   ELSE IF ShouldDelegate(rtErr, cl.spec)
                   THEN delegateBuildOrFail(
                            Goto(cl, <<"validate", "runtime">>, "enter"), rtErr)
                   ELSE IF ~cl.spec.hasData
                   THEN Goto(cl, <<"validate", "runtime">>, "pack")
                   ELSE NewSnapshot(cl, <<"validate", "runtime">>, now))
    /\ UNCHANGED <<deleg, goDir, top>>

BuildEnter(c) == BuildEnterAt(c, Clock)

\* buildSpec.Source.Pack (lines 37-41), then the snapshot (42-43).
Pack(c) ==
    /\ At(c, "pack")
    /\ \E ok \in BOOLEAN, now \in Clock :
        Set(c, IF ok THEN NewSnapshot(calls[c], <<"pack">>, now)
                     ELSE Return(calls[c], <<"pack">>, Nil, "pack"))
    /\ UNCHANGED <<deleg, goDir, top>>

---------------------------------------------------------------------------
\* The delegation path

\* Service.ensureDocker: the bring-up runs only when the probe fails.
ensureDockerSkipProbe(up) == "forward"
ensureDocker(up) == IF up THEN "forward" ELSE "runDocker"

\* aClient.IsUp() in ensureDocker (lines 164-169).
Probe(c) ==
    /\ At(c, "probe")
    /\ \E up \in BOOLEAN :
        Set(c, Goto(calls[c], <<IF up THEN "probeUp" ELSE "probeDown">>,
                    ensureDocker(up)))
    /\ UNCHANGED <<deleg, goDir, top>>

\* s.runDocker(delegation, spec): one bring-up, then a re-probe; it fails when
\* the bring-up fails or the delegation is still unreachable.
runDocker(started, up) == IF started /\ up THEN NoErr ELSE "unreachable"

runDockerEvents(started, up) ==
    IF ~started THEN <<"bringUpFailed">>
    ELSE <<"bringUp", IF up THEN "probeUp" ELSE "probeDown">>

\* delegateBuildOrFail, lines 157-160: the error of ensureDocker ends the call.
afterEnsureDockerIgnoreErr(cl, events, err) == Goto(cl, events, "forward")
afterEnsureDocker(cl, events, err) ==
    IF err # NoErr THEN Return(cl, events, Nil, err) ELSE Goto(cl, events, "forward")

\* return s.runDocker(delegation, spec) (line 170)
RunDocker(c) ==
    /\ At(c, "runDocker")
    /\ \E started \in BOOLEAN, up \in BOOLEAN :
        Set(c, afterEnsureDocker(calls[c], runDockerEvents(started, up),
                                 runDocker(started, up)))
    /\ UNCHANGED <<deleg, goDir, top>>

\* The BuildSpec as it travels to the remote builder: its data fields.
Forwarded(sp) ==
    [name |-> sp.name, runtime |-> sp.runtime,
     EnsureTheSameOs |-> sp.EnsureTheSameOs, hasData |-> sp.hasData,
     mode |-> sp.mode]

\* aClient.Build(ctx, spec) (lines 160-161): the request reaches the remote
\* builder, which runs Build on it, or the round trip fails.
Forward(c) ==
    /\ At(c, "forward")
    /\ Len(calls) <= MaxDepth
    /\ \E sent \in BOOLEAN :
        calls' = IF sent
                 THEN Append([calls EXCEPT ![c] = Goto(calls[c], <<"forward">>, "await")],
                             NewCall(calls[c].target, Forwarded(calls[c].spec), c))
                 ELSE [calls EXCEPT ![c] =
                          Return(calls[c], <<"forward">>, Nil, "network")]
    /\ UNCHANGED <<deleg, goDir, top>>

\* return aClient.Build(ctx, spec): whatever the remote builder reports.
Reply(c) ==
    /\ At(c, "await")
    /\ \E d \in DOMAIN calls :
        /\ calls[d].parent = c
        /\ calls[d].pc = "done"
        /\ Set(c, Return(calls[c], <<"reply">>, calls[d].module, calls[d].err))
    /\ UNCHANGED <<deleg, goDir, top>>

---------------------------------------------------------------------------
\* The toolchain cache

\* s.fs.Exists(ctx, path.Join(verLocation, "go"))
Exists(dir) == dir \in {"partial", "complete"}

\* ensureGo, lines 132-137: the hit path returns nil.
ensureGoNoCheck(dir) == "mkdir"
ensureGo(dir) == IF Exists(dir) THEN "unpack" ELSE "mkdir"

EnsureGo(c) ==
    /\ At(c, "ensureGo")
    /\ LET dir == goDir[calls[c].builder]
       IN  Set(c, [Goto(calls[c], <<"exists">>, ensureGo(dir)) EXCEPT !.goSeen = dir])
    /\ UNCHANGED <<deleg, goDir, top>>

\* os.MkdirAll(verLocation, defaultDirPermission) (lines 138-140)
MkdirAll(c) ==
    /\ At(c, "mkdir")
    /\ LET b == calls[c].builder IN
       \E ok \in BOOLEAN :
        /\ Set(c, IF ok THEN Goto(calls[c], <<"mkdir">>, "copy")
                        ELSE Return(calls[c], <<"mkdir">>, Nil, "mkdir"))
        /\ goDir' = IF ok /\ goDir[b] = "absent"
                    THEN [goDir EXCEPT ![b] = "dir"] ELSE goDir
    /\ UNCHANGED <<deleg, top>>

\* s.fs.Copy(ctx, URL, verLocation) (lines 141-148): the fetch fails before
\* anything is written, or the extraction starts and leaves the go entry in place.
CopyBegin(c) ==
    /\ At(c, "copy")
    /\ LET b == calls[c].builder IN
       \E ok \in BOOLEAN :
        /\ Set(c, IF ok THEN Goto(calls[c], <<"copy">>, "extract")
                        ELSE Return(calls[c], <<"copy">>, Nil, "install"))
        /\ goDir' = IF ok THEN [goDir EXCEPT ![b] = "partial"] ELSE goDir
    /\ UNCHANGED <<deleg, top>>

\* The extraction ends: every file is written, or it stops part way.
CopyEnd(c) ==
    /\ At(c, "extract")
    /\ LET b == calls[c].builder IN
       \E ok \in BOOLEAN :
        /\ Set(c, IF ok THEN Goto(calls[c], <<"copied">>, "unpack")
                        ELSE Return(calls[c], <<"copyFailed">>, Nil, "install"))
        /\ goDir' = IF ok THEN [goDir EXCEPT ![b] = "complete"] ELSE goDir
    /\ UNCHANGED <<deleg, top>>

---------------------------------------------------------------------------
\* Unpack, compile, artifact

\* buildSpec.Source.Unpack with the file callback (lines 47-62); AppendMain
\* records the path of every file the callback finds the marker in.
UnpackFrom(c, bundles) ==
    /\ At(c, "unpack")
    /\ \E bundle \in bundles, ok \in BOOLEAN :
        LET cl == calls[c]
            out == { onFile(f, cl.buildMode) : f \in bundle }
            mains == { o.path : o \in { x \in out : x.main } }
        IN  Set(c, IF ok
                   THEN [Goto(cl, <<"unpack">>, "build") EXCEPT
                            !.staged = out, !.mains = mains,
                            !.buildMode = ResolveMode(cl.buildMode, mains)]
                   ELSE Return(cl, <<"unpack">>, Nil, "unpack"))
    /\ UNCHANGED <<deleg, goDir, top>>

Unpack(c) == UnpackFrom(c, Bundles)

\* Names and values of environment variables, as character sequences.
EnvKeys == {<<"GOOS">>, <<"GOFLAGS">>}
EnvVals == {<<"1">>, <<"a", "=", "b">>}

\* fmt.Sprintf("%v=%v", k, v)
Sprintf(k, v) == k \o <<"=">> \o v

\* buildSpec.Go.Env: a map from names to values.
EnvMaps == UNION { [D -> EnvVals] : D \in SUBSET EnvKeys }

\* snapshot.Env(): the entries the snapshot computes.
SnapshotEnvs ==
    UNION { [1..n -> { Sprintf(k, v) : k \in EnvKeys, v \in EnvVals }] : n \in 0..MaxEnv }

\* The orders in which range may visit the keys of a map.
RangeOrders(pairs) ==
    { o \in [1..Cardinality(DOMAIN pairs) -> DOMAIN pairs] :
        \A i, j \in DOMAIN o : o[i] = o[j] => i = j }

\* appendEnv(pairs, env), with the order in which range visits the map.
appendEnvInFront(pairs, order, env) ==
    [i \in 1..Len(order) |-> Sprintf(order[i], pairs[order[i]])] \o env
appendEnv(pairs, order, env) ==
    IF Cardinality(DOMAIN pairs) > 0
    THEN env \o [i \in 1..Len(order) |-> Sprintf(order[i], pairs[order[i]])]
    ELSE env

\* if err = s.build(snapshot, buildSpec); err != nil { return nil, err }
afterBuildIgnoreExit(cl, ok) ==
    Goto(cl, IF ok THEN <<"compile">> ELSE <<"compile", "exit1">>, "download")
afterBuild(cl, ok) ==
    IF ok THEN Goto(cl, <<"compile">>, "download")
          ELSE Return(cl, <<"compile", "exit1">>, Nil, "compile")

\* s.build(snapshot, buildSpec) (lines 64-66, 85-98): the compiler process
\* with the merged environment; a non-zero exit is the error of Build.
CompileWith(c, maps, snapshotEnvs) ==
    /\ At(c, "build")
    /\ \E pairs \in maps, snap \in snapshotEnvs, ok \in BOOLEAN :
        \E order \in RangeOrders(pairs) :
            LET cl == [calls[c] EXCEPT !.goEnv = pairs, !.snapEnv = snap,
                                       !.env = appendEnv(pairs, order, snap)]
            IN  Set(c, afterBuild(cl, ok))
    /\ UNCHANGED <<deleg, goDir, top>>

Compile(c) == CompileWith(c, {<<>>}, {<<>>})

\* The bytes the compiler may leave at snapshot.PluginDestPath.
Artifacts == {"plugin.so#1", "plugin.so#2"}

\* build.AsScn(snapshot.Created)
AsScn(created) == <<"scn", created>>

\* The Module of lines 73-81.
ModuleOfRequestedMode(cl, data) ==
    [Mode |-> GetModeWithSpec(cl.spec), Data |-> data, Scn |-> AsScn(cl.created),
     Runtime |-> cl.spec.runtime, Name |-> cl.spec.name]
Module(cl, data) ==
    [Mode |-> cl.buildMode, Data |-> data, Scn |-> AsScn(cl.created),
     Runtime |-> cl.spec.runtime, Name |-> cl.spec.name]

\* s.fs.DownloadWithURL(ctx, snapshot.PluginDestPath) (lines 68-83)
Download(c) ==
    /\ At(c, "download")
    /\ \/ \E data \in Artifacts :
            Set(c, Return([calls[c] EXCEPT !.data = data], <<"download">>,
                          Module(calls[c], data), NoErr))
       \/ Set(c, Return(calls[c], <<"download">>, Nil, "locate"))
    /\ UNCHANGED <<deleg, goDir, top>>

---------------------------------------------------------------------------
\* The top-level pgo.Build and the specification

Idle == [pc |-> "idle", err |-> NoErr, stored |-> "none"]

\* pgo.Build, lines 11-18: the options are validated, then the builder runs.
Start ==
    /\ top.pc = "idle"
    /\ \E b \in Builders, sp \in Specs, valid \in BOOLEAN :
        IF valid
        THEN /\ calls' = <<NewCall(b, sp, 0)>>
             /\ top' = [Idle EXCEPT !.pc = "building"]
        ELSE /\ calls' = <<>>
             /\ top' = [Idle EXCEPT !.pc = "done", !.err = "options"]
    /\ UNCHANGED <<deleg, goDir>>

\* pgo.Build, lines 19-23: the error is returned, or the plugin is stored.
Store ==
    /\ top.pc = "building"
    /\ calls[1].pc = "done"
    /\ top' = IF calls[1].err # NoErr
              THEN [top EXCEPT !.pc = "done", !.err = calls[1].err]
              ELSE [top EXCEPT !.pc = "done",
                               !.stored = IF calls[1].module = Nil
                                          THEN "missing" ELSE "module"]
    /\ UNCHANGED <<deleg, goDir, calls>>

Registries == { r \in [Runtimes -> Builders \cup {NoBuilder}] :
                  Cardinality({ rt \in Runtimes : r[rt] # NoBuilder }) <= 1 }

Init ==
    /\ deleg \in [Builders -> Registries]
    /\ goDir = [b \in Builders |-> "absent"]
    /\ calls = <<>>
    /\ top = Idle

Chain == 1..(MaxDepth + 1)

Next ==
    \/ Start
    \/ Store
    \/ \E c \in Chain :
        \/ BuildEnter(c)
        \/ Pack(c)
        \/ Probe(c)
        \/ RunDocker(c)
        \/ Forward(c)
        \/ Reply(c)
        \/ EnsureGo(c)
        \/ MkdirAll(c)
        \/ CopyBegin(c)
        \/ CopyEnd(c)
        \/ Unpack(c)
        \/ Compile(c)
        \/ Download(c)

Spec == Init /\ [][Next]_vars

---------------------------------------------------------------------------
\* Builds that share the toolchain cache of one builder

LocalSpecs ==
    { sp \in Specs : /\ Validate(sp) = NoErr
                     /\ sp.runtime = HostRuntime("A")
                     /\ ~sp.EnsureTheSameOs
                     /\ sp.hasData
                     /\ sp.mode = "plugin" }

\* A caller of Service.Build on builder A, while earlier calls may still run.
StartGo ==
    /\ Len(calls) < MaxBuilds
    /\ \E sp \in LocalSpecs : calls' = Append(calls, NewCall("A", sp, 0))
    /\ UNCHANGED <<deleg, goDir, top>>

InitGo ==
    /\ deleg = [b \in Builders |-> [rt \in Runtimes |-> NoBuilder]]
    /\ goDir = [b \in Builders |-> "absent"]
    /\ calls = <<>>
    /\ top = Idle

NextGo ==
    \/ StartGo
    \/ \E c \in 1..MaxBuilds :
        \/ BuildEnterAt(c, {1})
        \/ EnsureGo(c)
        \/ MkdirAll(c)
        \/ CopyBegin(c)
        \/ CopyEnd(c)
        \/ UnpackFrom(c, {{}})
        \/ Compile(c)
        \/ Download(c)

SpecGo == InitGo /\ [][NextGo]_vars

---------------------------------------------------------------------------
\* One local build with its compiler environment

StartOne ==
    /\ calls = <<>>
    /\ \E sp \in LocalSpecs : calls' = <<NewCall("A", sp, 0)>>
    /\ UNCHANGED <<deleg, goDir, top>>

NextEnv ==
    \/ StartOne
    \/ BuildEnterAt(1, {1})
    \/ EnsureGo(1)
    \/ MkdirAll(1)
    \/ CopyBegin(1)
    \/ CopyEnd(1)
    \/ UnpackFrom(1, {{}})
    \/ CompileWith(1, EnvMaps, SnapshotEnvs)
    \/ Download(1)

SpecEnv == InitGo /\ [][NextEnv]_vars

---------------------------------------------------------------------------
\* A caller that hands the same *build.Build to Build a second time

Again == 1..(MaxDepth + 2)

Resubmitted == { c \in DOMAIN calls : c > 1 /\ calls[c].parent = 0 }

\* s.Build(ctx, buildSpec) once more, on the object the first call left.
Resubmit ==
    /\ calls # <<>>
    /\ \A c \in DOMAIN calls : calls[c].pc = "done"
    /\ Resubmitted = {}
    /\ calls' = Append(calls, NewCall(calls[1].builder, calls[1].spec, 0))
    /\ UNCHANGED <<deleg, goDir, top>>

NextAgain ==
    \/ Start
    \/ Resubmit
    \/ \E c \in Again :
        \/ BuildEnterAt(c, {1})
        \/ Pack(c)
        \/ Probe(c)
        \/ RunDocker(c)
        \/ Forward(c)
        \/ Reply(c)
        \/ EnsureGo(c)
        \/ MkdirAll(c)
        \/ CopyBegin(c)
        \/ CopyEnd(c)
        \/ UnpackFrom(c, {{}})
        \/ Compile(c)
        \/ Download(c)

SpecAgain == Init /\ [][NextAgain]_vars

---------------------------------------------------------------------------
\* Properties

Has(cl, e) == \E i \in DOMAIN cl.trace : cl.trace[i] = e

Done(cl) == cl.pc = "done"

DelegationEvents ==
    {"clearFlag", "match", "probeUp", "probeDown", "bringUp", "bringUpFailed",
     "forward", "reply"}

LocalEvents ==
    {"pack", "exists", "mkdir", "copy", "copied", "copyFailed", "unpack",
     "compile", "download"}

Children(c) == { d \in DOMAIN calls : calls[d].parent = c }

\* C1: every Build call that has returned holds exactly one of a Module and an
\* error, and pgo.Build never hands a missing Module to Store.
C1_ModuleXorError ==
    /\ \A c \in DOMAIN calls :
        Done(calls[c]) => ((calls[c].module # Nil) <=> (calls[c].err = NoErr))
    /\ top.stored # "missing"

\* C2: the spec a remote builder receives has the forced-delegation flag
\* cleared, whatever the flag was and whatever led to the delegation; the flag
\* is cleared before the lookup, the probe, the bring-up and the forward.
C2_ForwardedFlagCleared ==
    \A c \in DOMAIN calls :
        /\ calls[c].parent # 0 => ~calls[c].arg.EnsureTheSameOs
        /\ \A i \in DOMAIN calls[c].trace :
            calls[c].trace[i] \in DelegationEvents \ {"clearFlag"}
                => /\ \E j \in 1..(i - 1) : calls[c].trace[j] = "clearFlag"
                   /\ ~calls[c].spec.EnsureTheSameOs

C2_Witness ==
    \E c \in DOMAIN calls :
        /\ calls[c].parent # 0
        /\ calls[calls[c].parent].arg.EnsureTheSameOs
        /\ calls[calls[c].parent].arg.runtime = HostRuntime(calls[calls[c].parent].builder)

\* C3: the builder that receives a forwarded spec does not forward it again:
\* no chain of forwards is longer than one.
C3_NoConsecutiveDelegation ==
    \A c \in DOMAIN calls :
        calls[c].parent # 0 => calls[calls[c].parent].parent = 0

\* C4: a call whose valid spec targets the host runtime without the forced
\* flag never looks up the registry, probes, brings up or forwards; it is on the
\* local-build path.
C4_LocalNeverDelegates ==
    \A c \in DOMAIN calls :
        LET cl == calls[c] IN
        ( /\ cl.pc # "enter"
          /\ Validate(cl.arg) = NoErr
          /\ cl.arg.runtime = HostRuntime(cl.builder)
          /\ ~cl.arg.EnsureTheSameOs )
        => /\ \A e \in DelegationEvents : ~Has(cl, e)
           /\ cl.target = NoBuilder
           /\ Children(c) = {}
           /\ cl.pc \in {"pack", "ensureGo", "mkdir", "copy", "extract",
                         "unpack", "build", "download", "done"}
           /\ cl.err \notin {"mismatch", "unreachable", "network"}
           /\ Done(cl) => \E e \in LocalEvents : Has(cl, e)

C4_Witness ==
    \E c \in DOMAIN calls :
        /\ Done(calls[c])
        /\ calls[c].module # Nil
        /\ Has(calls[c], "compile")
        /\ calls[c].arg.runtime = HostRuntime(calls[c].builder)
        /\ ~calls[c].arg.EnsureTheSameOs

\* C5: a call on the delegation path whose registry matches nothing returns an
\* error and no Module, and has packed, installed, unpacked, compiled, fetched,
\* probed and forwarded nothing.
C5_NoMatchIsTerminalError ==
    \A c \in DOMAIN calls :
        LET cl == calls[c] IN
        (Done(cl) /\ Has(cl, "match") /\ cl.target = NoBuilder)
        => /\ cl.err # NoErr
           /\ cl.module = Nil
           /\ \A e \in LocalEvents \cup {"probeUp", "probeDown", "forward"} :
                ~Has(cl, e)

\* ensureGo returned nil in this call.
Installed(cl) ==
    /\ Has(cl, "exists")
    /\ cl.pc \notin {"mkdir", "copy", "extract"}
    /\ cl.err \notin {"mkdir", "install"}

\* C6: once ensureGo has succeeded, a later call made after it (same version,
\* same cache root) finds the compiler present and returns nil without creating
\* a directory or copying; sequential successful calls copy at most once.
C6_EnsureGoIdempotent ==
    /\ \A c, d \in DOMAIN calls :
        ( /\ c < d
          /\ calls[c].builder = calls[d].builder
          /\ ~calls[d].concurrent
          /\ Installed(calls[c])
          /\ Has(calls[d], "exists") )
        => /\ Exists(calls[d].goSeen)
           /\ Installed(calls[d])
           /\ \A e \in {"mkdir", "copy", "copied", "copyFailed"} : ~Has(calls[d], e)
    /\ (\A c \in DOMAIN calls :
            ~calls[c].concurrent /\ (Done(calls[c]) => Installed(calls[c])))
        => Cardinality({ c \in DOMAIN calls : Has(calls[c], "copy") }) <= 1

C6_Witness ==
    \E c, d \in DOMAIN calls :
        /\ c < d
        /\ ~calls[d].concurrent
        /\ Has(calls[c], "copied")
        /\ Installed(calls[d])
        /\ calls[d].goSeen = "complete"
        /\ Done(calls[d])

\* C7: no build that found the toolchain present is unpacking or compiling
\* while another build's extraction into that version directory is incomplete.
C7_NoBuildOnPartialToolchain ==
    \A c, d \in DOMAIN calls :
        ( /\ c # d
          /\ calls[c].builder = calls[d].builder
          /\ calls[d].pc = "extract" )
        => ~(calls[c].pc \in {"unpack", "build"} /\ calls[c].goSeen = "partial")

\* C8: a forward directly follows a successful probe; the bring-up runs only
\* after a failed probe, once, and is followed by a re-probe; a failed re-probe
\* ends the call with an error and no forward.
C8_ForwardOnlyAfterProbe ==
    \A c \in DOMAIN calls :
        LET cl == calls[c]
            t == cl.trace
        IN  /\ Children(c) # {} => Has(cl, "forward")
            /\ \A i \in DOMAIN t :
                /\ t[i] = "forward" => i > 1 /\ t[i - 1] = "probeUp"
                /\ t[i] \in {"bringUp", "bringUpFailed"}
                    => /\ i > 1 /\ t[i - 1] = "probeDown"
                       /\ \A j \in DOMAIN t :
                            t[j] \in {"bringUp", "bringUpFailed"} => j = i
                /\ (t[i] = "bringUp" /\ Len(t) > i)
                    => t[i + 1] \in {"probeUp", "probeDown"}
                /\ (t[i] = "probeDown" /\ i > 1 /\ t[i - 1] = "match" /\ Len(t) > i)
                    => t[i + 1] \in {"bringUp", "bringUpFailed"}
                /\ (t[i] = "probeDown" /\ i > 1 /\ t[i - 1] = "bringUp")
                    => /\ Done(cl) /\ cl.err # NoErr /\ cl.module = Nil
                       /\ Len(t) = i

C8_Witness ==
    \E c \in DOMAIN calls :
        \E i \in DOMAIN calls[c].trace :
            /\ i > 3
            /\ SubSeq(calls[c].trace, i - 3, i)
                 = <<"probeDown", "bringUp", "probeUp", "forward">>
            /\ Children(c) # {}

\* C9: when the probe fails and the bring-up fails, the call returns an error,
\* sends nothing to the delegation, requests no artifact, and does not bring up
\* or probe again.
C9_BringUpFailureIsTerminal ==
    \A c \in DOMAIN calls :
        LET cl == calls[c] IN
        Has(cl, "bringUpFailed")
        => /\ Done(cl) /\ cl.err # NoErr /\ cl.module = Nil
           /\ Children(c) = {}
           /\ ~Has(cl, "forward") /\ ~Has(cl, "download") /\ ~Has(cl, "bringUp")
           /\ cl.trace[Len(cl.trace)] = "bringUpFailed"
           /\ Cardinality({ i \in DOMAIN cl.trace :
                              cl.trace[i] \in {"probeUp", "probeDown"} }) = 1

C9_Witness ==
    \E c \in DOMAIN calls :
        /\ Has(calls[c], "bringUpFailed")
        /\ calls[c].target # NoBuilder
        /\ Done(calls[c])

\* The files of the workspace that are .go, .mod or .sum and hold the marker.
EntryPoints(cl) ==
    { o \in cl.staged : /\ Ext(o.name) \in {".go", ".mod", ".sum"}
                        /\ Contains(o.content, mainFragment) }

\* C10: after the unpack the path of every .go, .mod or .sum file whose
\* rewritten content holds the marker is in the entry-point set; the Module's
\* mode is "program" then, unless plugin mode was requested, in which case it
\* is "plugin" with or without entry points.
C10_EntryPointsAndMode ==
    \A c \in DOMAIN calls :
        LET cl == calls[c] IN
        (Has(cl, "unpack") /\ cl.err # "unpack")
        => /\ \A o \in EntryPoints(cl) : o.path \in cl.mains
           /\ cl.module # Nil
               => /\ cl.arg.mode = "plugin" => cl.module.Mode = "plugin"
                  /\ (cl.arg.mode # "plugin" /\ EntryPoints(cl) # {})
                       => cl.module.Mode = "program"

C10_Witness ==
    \E c \in DOMAIN calls :
        /\ calls[c].module # Nil
        /\ calls[c].arg.mode = "plugin"
        /\ Cardinality(EntryPoints(calls[c])) = 2
        /\ calls[c].mains # {}
        /\ calls[c].module.Mode = "plugin"

\* C11: a spec that fails validation makes Build return the validation error
\* with nothing else done: no runtime check, lookup, pack, toolchain step,
\* unpack, compiler or request; a failed option validation in pgo.Build creates
\* no call and stores nothing.
C11_ValidationFailureNoEffects ==
    /\ \A c \in DOMAIN calls :
        LET cl == calls[c] IN
        (Validate(cl.arg) # NoErr /\ cl.pc # "enter")
        => /\ Done(cl) /\ cl.err = Validate(cl.arg) /\ cl.module = Nil
           /\ cl.trace = <<"validate">>
           /\ cl.spec = cl.arg
           /\ cl.target = NoBuilder /\ Children(c) = {}
           /\ cl.goSeen = "" /\ cl.staged = {} /\ cl.mains = {}
           /\ goDir = [b \in Builders |-> "absent"]
           /\ top.stored = "none"
           /\ top.pc = "done" => top.err = Validate(cl.arg)
    /\ top.err = "options"
        => /\ calls = <<>>
           /\ top.stored = "none"
           /\ goDir = [b \in Builders |-> "absent"]

C11_Witness ==
    /\ top.pc = "done"
    /\ top.err = "validation"
    /\ calls[1].arg.name = ""

\* The name of an environment entry: the text before its first "=".
KeyOf(entry) ==
    LET i == CHOOSE i \in DOMAIN entry :
                 entry[i] = "=" /\ \A j \in 1..(i - 1) : entry[j] # "="
    IN  SubSeq(entry, 1, i - 1)

ValueOf(entry) == SubSeq(entry, Len(KeyOf(entry)) + 2, Len(entry))

\* The value a process started with env sees for k: the last entry wins.
Effective(env, k) ==
    LET at == { i \in DOMAIN env : KeyOf(env[i]) = k }
    IN  IF at = {} THEN <<"unset">>
        ELSE ValueOf(env[CHOOSE i \in at : \A j \in at : j <= i])

\* C12: the compiler's environment keeps every snapshot entry, holds every
\* explicit variable of the spec after them, and gives every explicit key its
\* explicit value under last-writer-wins, in whatever order the map is ranged.
C12_ExplicitEnvWins ==
    \A c \in DOMAIN calls :
        LET cl == calls[c] IN
        Has(cl, "compile")
        => /\ Len(cl.env) = Len(cl.snapEnv) + Cardinality(DOMAIN cl.goEnv)
           /\ SubSeq(cl.env, 1, Len(cl.snapEnv)) = cl.snapEnv
           /\ \A k \in DOMAIN cl.goEnv :
                /\ \E j \in DOMAIN cl.env :
                    /\ cl.env[j] = Sprintf(k, cl.goEnv[k])
                    /\ \A i \in DOMAIN cl.env :
                        (KeyOf(cl.env[i]) = k /\ i # j) => i < j
                /\ Effective(cl.env, k) = cl.goEnv[k]
           /\ \A k \in EnvKeys \ DOMAIN cl.goEnv :
                Effective(cl.env, k) = Effective(cl.snapEnv, k)

C12_Witness ==
    \E c \in DOMAIN calls :
        /\ Has(calls[c], "compile")
        /\ Len(calls[c].env) = 4
        /\ KeyOf(calls[c].env[2]) = KeyOf(calls[c].env[4])
        /\ KeyOf(calls[c].env[1]) = KeyOf(calls[c].env[3])
        /\ KeyOf(calls[c].env[3]) = <<"GOOS">>
        /\ ValueOf(calls[c].env[2]) # ValueOf(calls[c].env[4])
        /\ Effective(calls[c].env, <<"GOFLAGS">>) = <<"a", "=", "b">>

\* The place of a local step in Build (lines 37-83).
Rank(e) ==
    CASE e = "pack" -> 1
      [] e = "exists" -> 2
      [] e = "mkdir" -> 3
      [] e = "copy" -> 4
      [] e \in {"copied", "copyFailed"} -> 5
      [] e = "unpack" -> 6
      [] e = "compile" -> 7
      [] e = "download" -> 8
      [] OTHER -> 0

LocalErrors == {"pack", "mkdir", "install", "unpack", "compile", "locate"}

\* The last local step the call has started.
LastLocal(cl) ==
    LET at == { i \in DOMAIN cl.trace : cl.trace[i] \in LocalEvents }
    IN  IF at = {} THEN "none"
        ELSE cl.trace[CHOOSE i \in at : \A j \in at : j <= i]

\* C13: the local steps of a call happen in the order pack (only without raw
\* bytes), snapshot, toolchain, unpack, compile, retrieve, Module, each at most
\* once and each only after the earlier ones succeeded; a failed step ends the
\* call with its error, as the last step the call made.
C13_LocalStepsInOrder ==
    \A c \in DOMAIN calls :
        LET cl == calls[c]
            t == cl.trace
        IN  /\ \A i, j \in DOMAIN t :
                (i < j /\ t[i] \in LocalEvents /\ t[j] \in LocalEvents)
                    => Rank(t[i]) < Rank(t[j])
            /\ Has(cl, "pack") => ~cl.arg.hasData
            /\ cl.created # 0 => (cl.arg.hasData \/ (Has(cl, "pack") /\ cl.err # "pack"))
            /\ Has(cl, "exists") => cl.created # 0
            /\ Has(cl, "mkdir") => (Has(cl, "exists") /\ ~Exists(cl.goSeen))
            /\ Has(cl, "copy") => Has(cl, "mkdir")
            /\ (Has(cl, "copied") \/ Has(cl, "copyFailed")) => Has(cl, "copy")
            /\ Has(cl, "unpack")
                => /\ Has(cl, "exists")
                   /\ Exists(cl.goSeen) \/ Has(cl, "copied")
                   /\ ~Has(cl, "copyFailed")
            /\ Has(cl, "compile") => (Has(cl, "unpack") /\ cl.err # "unpack")
            /\ Has(cl, "download") => (Has(cl, "compile") /\ cl.err # "compile")
            /\ (cl.module # Nil /\ cl.parent = 0 /\ ~Has(cl, "reply"))
                => (Has(cl, "download") /\ cl.err = NoErr)
            /\ cl.err \in LocalErrors /\ ~Has(cl, "reply")
                => /\ Done(cl) /\ cl.module = Nil
                   /\ LastLocal(cl) =
                        CASE cl.err = "pack" -> "pack"
                          [] cl.err = "mkdir" -> "mkdir"
                          [] cl.err = "install" ->
                                IF Has(cl, "copyFailed") THEN "copyFailed" ELSE "copy"
                          [] cl.err = "unpack" -> "unpack"
                          [] cl.err = "compile" -> "compile"
                          [] cl.err = "locate" -> "download"

C13_Witness ==
    \E c \in DOMAIN calls :
        /\ Done(calls[c])
        /\ calls[c].err = "compile"
        /\ Has(calls[c], "pack")
        /\ Has(calls[c], "copied")
        /\ ~Has(calls[c], "download")

\* C14: the artifact is requested only after the compiler exited with success;
\* a failed compile ends the call with the compile error and no request; a
\* missing artifact after a successful compile ends the call with the "failed
\* to locate plugin" error, which is not the compile error, and no Module.
C14_RetrieveOnlyAfterCompile ==
    \A c \in DOMAIN calls :
        LET cl == calls[c]
            t == cl.trace
        IN  /\ \A i \in DOMAIN t :
                t[i] = "download" => (i > 1 /\ t[i - 1] = "compile")
            /\ cl.pc = "download" => (LastLocal(cl) = "compile" /\ ~Has(cl, "exit1"))
            /\ Has(cl, "exit1")
                => /\ Done(cl) /\ cl.err = "compile" /\ cl.module = Nil
                   /\ ~Has(cl, "download")
                   /\ cl.data = ""
            /\ (cl.err = "compile" /\ ~Has(cl, "reply")) => Has(cl, "exit1")
            /\ (cl.err = "locate" /\ ~Has(cl, "reply"))
                => /\ Done(cl) /\ cl.module = Nil
                   /\ Has(cl, "download") /\ ~Has(cl, "exit1")
                   /\ cl.err # "compile"
                   /\ cl.data = ""

C14_Witness ==
    \E c \in DOMAIN calls :
        /\ calls[c].err = "locate"
        /\ Has(calls[c], "compile")
        /\ calls[c].module = Nil
        /\ calls[c].parent = 0

\* C15: the Module of a successful local build holds the bytes retrieved, the
\* snapshot's resolved mode, the name and the runtime of the spec as validated
\* at the start of the call, and the sequence number of the snapshot's creation
\* time; the local path leaves the spec as it was.
C15_ModuleContents ==
    \A c \in DOMAIN calls :
        LET cl == calls[c] IN
        (Has(cl, "download") /\ cl.err = NoErr)
        => /\ cl.module # Nil
           /\ cl.module.Data = cl.data /\ cl.data \in Artifacts
           /\ cl.module.Mode = ResolveMode(GetModeWithSpec(cl.arg), cl.mains)
           /\ cl.module.Mode = cl.buildMode
           /\ cl.module.Name = cl.arg.name
           /\ cl.module.Runtime = cl.arg.runtime
           /\ cl.module.Scn = AsScn(cl.created) /\ cl.created \in Clock
           /\ cl.spec = cl.arg

C15_Witness ==
    \E c \in DOMAIN calls :
        /\ Has(calls[c], "download")
        /\ calls[c].module # Nil
        /\ calls[c].module.Mode = "program"
        /\ calls[c].arg.mode = ""
        /\ calls[c].module.Data = "plugin.so#2"
        /\ calls[c].created = 2

\* C16: a call that entered the delegation path has cleared the forced flag on
\* the caller's spec object and changed no other field, whatever the outcome;
\* any other call leaves the object as it was; a second call with that object
\* on a host of the target runtime takes the local-build path.
C16_FlagClearedOnCallersSpec ==
    /\ \A c \in DOMAIN calls :
        LET cl == calls[c] IN
        /\ (\E e \in DelegationEvents : Has(cl, e)) => Has(cl, "clearFlag")
        /\ Has(cl, "clearFlag") => cl.spec = [cl.arg EXCEPT !.EnsureTheSameOs = FALSE]
        /\ ~Has(cl, "clearFlag") => cl.spec = cl.arg
    /\ \A d \in Resubmitted :
        LET cl == calls[d] IN
        /\ cl.arg = calls[1].spec
        /\ cl.builder = calls[1].builder
        /\ ( /\ Has(calls[1], "clearFlag")
             /\ cl.arg.runtime = HostRuntime(cl.builder)
             /\ cl.pc # "enter" )
           => /\ \A e \in DelegationEvents : ~Has(cl, e)
              /\ cl.target = NoBuilder /\ Children(d) = {}
              /\ cl.pc \in {"pack", "ensureGo", "mkdir", "copy", "extract",
                            "unpack", "build", "download", "done"}
              /\ Done(cl) => \E e \in LocalEvents : Has(cl, e)

C16_Witness ==
    \E d \in Resubmitted :
        /\ calls[1].arg.EnsureTheSameOs
        /\ Has(calls[1], "match")
        /\ calls[1].target = NoBuilder
        /\ calls[d].arg.runtime = HostRuntime(calls[d].builder)
        /\ Has(calls[d], "compile")
        /\ calls[d].module # Nil

\* C17: a call made after a toolchain install failed, with no fetch-and-extract
\* completed or under way since, does not find the toolchain present: it
\* downloads afresh, and reaches the unpack only through a complete copy.
C17_FailedInstallRetried ==
    \A c, d \in DOMAIN calls :
        ( /\ c < d
          /\ calls[c].builder = calls[d].builder
          /\ ~calls[d].concurrent
          /\ calls[c].err \in {"mkdir", "install"}
          /\ \A x \in DOMAIN calls :
                x < d => (Done(calls[x]) /\ ~Has(calls[x], "copied"))
          /\ \A x \in DOMAIN calls : x > d => ~Has(calls[x], "copy")
          /\ Has(calls[d], "exists") )
        => /\ ~Exists(calls[d].goSeen)
           /\ calls[d].pc \in {"unpack", "build", "download"} => Has(calls[d], "copied")

\* The file of the bundle that a staged file was made from.
Original(o) == CHOOSE f \in Files : Join(f.parent, f.name) = o.path

SourceExts == {".go", ".mod", ".sum"}

\* C18: the callback keeps the file info of every file, and keeps the content
\* unless the file is .go, .mod or .sum and the build mode is "plugin"; a file
\* of another extension is never an entry point; without plugin mode a .go,
\* .mod or .sum file is scanned for the marker and passed through unchanged.
C18_CallbackFrame ==
    \A c \in DOMAIN calls :
        LET cl == calls[c] IN
        \A o \in cl.staged :
            LET f == Original(o)
                plugin == GetModeWithSpec(cl.arg) = "plugin"
            IN  /\ o.name = f.name
                /\ ~(Ext(f.name) \in SourceExts /\ plugin) => o.content = f.content
                /\ Ext(f.name) \notin SourceExts
                    => (o.content = f.content /\ ~o.main /\ o.path \notin cl.mains)
                /\ (Ext(f.name) \in SourceExts /\ ~plugin)
                    => /\ o.content = f.content
                       /\ o.path \in cl.mains <=> Contains(f.content, mainFragment)
                /\ (Ext(f.name) \in SourceExts /\ plugin)
                    => o.content = replaceDependencies(f.content)

C18_Witness ==
    \E c \in DOMAIN calls :
        \E o, p \in calls[c].staged :
            /\ calls[c].arg.mode # "plugin"
            /\ o.name = "notes.txt"
            /\ Contains(o.content, mainFragment)
            /\ o.path \notin calls[c].mains
            /\ p.name = "main.go"
            /\ Contains(p.content, <<"dep/v1">>)
            /\ p.path \in calls[c].mains

\* The text continues the identifier before it.
IdentifierTail == {"frame"}

\* The package clause of the source is "package main".
DeclaresMain(source) ==
    /\ Len(source) >= 2
    /\ source[1] = "package " /\ source[2] = "main"
    /\ Len(source) > 2 => source[3] \notin IdentifierTail

\* C19: every path in the entry-point set is that of a .go file whose package
\* clause is "package main"; a file that holds the bytes elsewhere, in a longer
\* package name or in a .mod or .sum file is not recorded.
C19_OnlyPackageMainRecorded ==
    \A c \in DOMAIN calls :
        \A o \in calls[c].staged :
            o.path \in calls[c].mains
                => (Ext(o.name) = ".go" /\ DeclaresMain(o.content))

====
